---- MODULE Spec2Model ----
(***************************************************************************)
(* Model of templates-validators.py: the TemplateValidator pipeline of     *)
(* Flake FHS (github URL check, sandbox copy and rewrite, nix flake check, *)
(* nix flake show, aggregation) and the batch enumeration of templates.    *)
(*                                                                         *)
(* Python values are represented as follows.                               *)
(*   str              a TLA+ string (Len, SubSeq and \o act on characters) *)
(*   Optional[T]      a sequence: None is << >>, a value v is << v >>      *)
(*   dict             a function from its keys; {} is the empty function   *)
(*   List[T]          a sequence                                           *)
(*   dataclass / Enum a record / the string of the member's value          *)
(***************************************************************************)
EXTENDS Integers, Sequences, FiniteSets, TLC

(***************************************************************************)
(* Python built-ins used by the validator                                  *)
(***************************************************************************)
None == << >>

Some(v) == << v >>

EmptyDict == << >>

\* dict.get(key, default)
Get(d, key, default) == IF key \in DOMAIN d THEN d[key] ELSE default

\* len(dict)
DictLen(d) == Cardinality(DOMAIN d)

\* (x or {}) for an Optional[dict]
OrEmptyDict(opt) == IF opt = None THEN EmptyDict ELSE opt[1]

\* pat in s
Contains(s, pat) ==
    \E i \in 1..(Len(s) - Len(pat) + 1) : SubSeq(s, i, i + Len(pat) - 1) = pat

\* s[i:] starts with pat
StartsWithAt(s, i, pat) ==
    /\ i + Len(pat) - 1 <= Len(s)
    /\ SubSeq(s, i, i + Len(pat) - 1) = pat

\* the character s[i] of a str, "" past its end
CharAt(s, i) == IF i >= 1 /\ i <= Len(s) THEN SubSeq(s, i, i) ELSE ""

Whitespace == {" ", "\t", "\n", "\r", "\f"}

\* the least index k >= i of s at which pat occurs, 0 if there is none
NextOccurrence(s, i, pat) ==
    LET hits == { k \in i..(Len(s) - Len(pat) + 1) : StartsWithAt(s, k, pat) }
    IN  IF hits = {} THEN 0
        ELSE CHOOSE k \in hits : \A j \in hits : k <= j

RECURSIVE ReplaceFrom(_, _, _, _)
ReplaceFrom(s, i, old, new) ==
    LET k == NextOccurrence(s, i, old)
    IN  IF k = 0 THEN SubSeq(s, i, Len(s))
        ELSE SubSeq(s, i, k - 1) \o new \o ReplaceFrom(s, k + Len(old), old, new)

\* s.replace(old, new), old not empty: left to right, occurrences do not overlap
StrReplace(s, old, new) == ReplaceFrom(s, 1, old, new)

\* the first index >= i of s whose character is not in chars (Len(s) + 1 if none)
SkipWhile(s, i, chars) ==
    LET stops == { k \in i..Len(s) : SubSeq(s, k, k) \notin chars }
    IN  IF stops = {} THEN IF i > Len(s) THEN i ELSE Len(s) + 1
        ELSE CHOOSE k \in stops : \A j \in stops : k <= j

\* the last index <= j of s whose character is not in chars (0 if none)
SkipBack(s, j, chars) ==
    LET stops == { k \in 1..j : SubSeq(s, k, k) \notin chars }
    IN  IF stops = {} THEN 0
        ELSE CHOOSE k \in stops : \A l \in stops : k >= l

\* s.strip()
Strip(s) ==
    LET i == SkipWhile(s, 1, Whitespace)
        j == SkipBack(s, Len(s), Whitespace)
    IN  IF i > j THEN "" ELSE SubSeq(s, i, j)

\* s[:n]
Prefix(s, n) == IF Len(s) <= n THEN s ELSE SubSeq(s, 1, n)

\* the first index >= i of s whose character is c (Len(s) + 1 if none)
SkipUntil(s, i, c) ==
    LET hits == { k \in i..Len(s) : SubSeq(s, k, k) = c }
    IN  IF hits = {} THEN IF i > Len(s) THEN i ELSE Len(s) + 1
        ELSE CHOOSE k \in hits : \A j \in hits : k <= j

(***************************************************************************)
(* TemplateValidator: constants and text inspection                        *)
(***************************************************************************)
EXPECTED_GITHUB_URL == "github:luochen1990/flake-fhs"

UrlAssignment == "flake-fhs.url"

\* One attempt of the pattern  flake-fhs\.url\s*=\s*"([^"]+)"  at index i of
\* content: << TRUE, group 1, index after the match >> or << FALSE, "", i >>.
\* \s* and [^"]+ are greedy and what follows each cannot be matched by it, so
\* backtracking never finds a match the greedy attempt misses.
UrlMatchAt(content, i) ==
    LET a == i + Len(UrlAssignment)
        b == SkipWhile(content, a, Whitespace)
        c == SkipWhile(content, b + 1, Whitespace)
        d == SkipUntil(content, c + 1, "\"")
    IN  IF /\ StartsWithAt(content, i, UrlAssignment)
           /\ CharAt(content, b) = "="
           /\ CharAt(content, c) = "\""
           /\ d > c + 1
           /\ d <= Len(content)
        THEN << TRUE, SubSeq(content, c + 1, d - 1), d + 1 >>
        ELSE << FALSE, "", i >>

RECURSIVE FindAllFrom(_, _)
\* the matches from index i on: the scan resumes after a match, and one index
\* further after a failed attempt
FindAllFrom(content, i) ==
    LET k == NextOccurrence(content, i, UrlAssignment)
    IN  IF k = 0 THEN << >>
        ELSE LET m == UrlMatchAt(content, k)
             IN  IF m[1] THEN << m[2] >> \o FindAllFrom(content, m[3])
                         ELSE FindAllFrom(content, k + 1)

\* as FindFlakeUrls, keeping the first match only (re.search for re.findall)
FindFirstFlakeUrl(content) ==
    LET all == FindAllFrom(content, 1)
    IN  IF all = << >> THEN << >> ELSE << all[1] >>

\* _find_flake_urls: re.findall(url_pattern, content)
FindFlakeUrls(content) == FindAllFrom(content, 1)

\* _replace_github_with_local_path
ReplaceGithubWithLocalPath(content, root) ==
    StrReplace(content, EXPECTED_GITHUB_URL, "path:" \o root)

(***************************************************************************)
(* Result types                                                            *)
(***************************************************************************)
PASSED == "PASSED"

FAILED == "FAILED"

SKIPPED == "SKIPPED"

\* @dataclass TestResult; details is an Optional[dict]
TestResult(name, status, message, details) ==
    [name |-> name, status |-> status, message |-> message, details |-> details]

\* @dataclass TemplateValidationResult; error_message is an Optional[str]
TemplateValidationResult(template_name, overall_status, tests, error_message) ==
    [template_name |-> template_name, overall_status |-> overall_status,
     tests |-> tests, error_message |-> error_message]

(***************************************************************************)
(* The file system.  A directory is a function from entry names to nodes;  *)
(* a node is a regular file with its text or a subdirectory.               *)
(***************************************************************************)
File(text) == [kind |-> "file", text |-> text]

Dir(entries) == [kind |-> "dir", entries |-> entries]

IsFile(node) == node.kind = "file"

IsDir(node) == node.kind = "dir"

\* str(e) of the IsADirectoryError raised by open() on a directory
IsADirectoryMessage(path) == "[Errno 21] Is a directory: '" \o path \o "'"

\* self.templates_dir and the directory tempfile.TemporaryDirectory() makes
TemplatesDirPath == "/repo/templates"

TempDirPath == "/tmp/tmpk3v9_x1a"

(***************************************************************************)
(* _check_template_uses_github_url                                         *)
(***************************************************************************)
CheckTemplateUsesGithubUrl(template, template_path) ==
    IF "flake.nix" \notin DOMAIN template
    THEN TestResult("github_url_check", FAILED,
                    "flake.nix not found in template", None)
    ELSE IF IsDir(template["flake.nix"])
    THEN TestResult("github_url_check", FAILED,
                    "Error reading template file: "
                        \o IsADirectoryMessage(template_path \o "/flake.nix"),
                    None)
    ELSE LET content == template["flake.nix"].text
         IN  IF Contains(content, EXPECTED_GITHUB_URL)
             THEN TestResult("github_url_check", PASSED,
                             "Template uses correct GitHub URL", None)
             ELSE TestResult("github_url_check", FAILED,
                             "Template does not use expected GitHub URL: "
                                 \o EXPECTED_GITHUB_URL,
                             Some([found_urls |-> FindFlakeUrls(content)]))

(***************************************************************************)
(* _create_temp_template: the outcome (success, error_msg) and the content *)
(* of temp_dir it leaves behind                                            *)
(***************************************************************************)
\* as RewriteVerified, without the test for the canonical reference
RewriteVerifiedPathOnly(content) == Contains(content, "path:")

\* as RewriteVerified, without the test for 'path:'
RewriteVerifiedNoReference(content) == ~Contains(content, EXPECTED_GITHUB_URL)

\* the check of line 152 on the manifest read back from the sandbox
RewriteVerified(content) ==
    Contains(content, "path:") /\ ~Contains(content, EXPECTED_GITHUB_URL)

CreateTempTemplate(template, root) ==
    LET copied == template
    IN  IF "flake.nix" \notin DOMAIN copied
        THEN [success |-> FALSE,
              error_msg |-> Some("flake.nix not found in template"),
              temp_dir |-> copied]
        ELSE IF IsDir(copied["flake.nix"])
        THEN [success |-> FALSE,
              error_msg |-> Some("Error creating temporary template: "
                                \o IsADirectoryMessage(TempDirPath \o "/flake.nix")),
              temp_dir |-> copied]
        ELSE LET modified_content ==
                     ReplaceGithubWithLocalPath(copied["flake.nix"].text, root)
                 written == [copied EXCEPT !["flake.nix"] = File(modified_content)]
                 content == written["flake.nix"].text
             IN  IF RewriteVerified(content)
                 THEN [success |-> TRUE, error_msg |-> None, temp_dir |-> written]
                 ELSE [success |-> FALSE,
                       error_msg |-> Some("Failed to replace GitHub URL with local path"),
                       temp_dir |-> written]

(***************************************************************************)
(* _run_command.  What the external process does is an input: either it    *)
(* outlives the timeout, or it ends with a return code and its two texts.  *)
(* stdout is [kind: "text", text] or, when the text is a JSON document,    *)
(* [kind: "json", data] with data the value json.loads gives for it.       *)
(***************************************************************************)
CommandTimeout == 120

Text(t) == [kind |-> "text", text |-> t]

Json(data) == [kind |-> "json", data |-> data]

Completed(returncode, stdout, stderr) ==
    [timed_out |-> FALSE, returncode |-> returncode,
     stdout |-> stdout, stderr |-> stderr]

TimedOut == [timed_out |-> TRUE, seconds |-> CommandTimeout]

RECURSIVE JoinWords(_)
\* ' '.join(command)
JoinWords(command) ==
    IF command = << >> THEN ""
    ELSE IF Len(command) = 1 THEN command[1]
    ELSE command[1] \o " " \o JoinWords(Tail(command))

\* as RunCommand, a timeout handed back as the exit of a killed process
RunCommandKilled(command, outcome) ==
    IF outcome.timed_out
    THEN [raised |-> FALSE,
          result |-> Completed(124, Text(""), "Command timed out: " \o JoinWords(command))]
    ELSE [raised |-> FALSE, result |-> outcome]

\* the process outcome handed back, or the TimeoutError raised instead
RunCommand(command, outcome) ==
    IF outcome.timed_out
    THEN [raised |-> TRUE,
          exception |-> "Command timed out: " \o JoinWords(command)]
    ELSE [raised |-> FALSE, result |-> outcome]

FlakeCheckCmd ==
    << "nix", "--extra-experimental-features", "nix-command",
       "--extra-experimental-features", "flakes",
       "flake", "check", "--no-build", "--quiet" >>

FlakeShowCmd ==
    << "nix", "--extra-experimental-features", "nix-command",
       "--extra-experimental-features", "flakes",
       "flake", "show", "--json" >>

(***************************************************************************)
(* _run_flake_check                                                        *)
(***************************************************************************)
MkFlakeMissingSuggestion ==
    "This is expected with local path replacement in build environments"

LibEvaluationSuggestion ==
    "This is a known issue with local path replacement in build environments"

CircularImportSuggestion ==
    "This is expected with local path replacement when testing flake-fhs templates"

\* the tests of lines 182, 193 and 204 on the stripped stderr
IsMkFlakeMissing(error_msg) == Contains(error_msg, "attribute 'mkFlake' missing")

IsLibEvaluationError(error_msg) ==
    Contains(error_msg, "expected a set but found a function")

\* as IsCircularImport, comparing the whole message with the signature
IsCircularImportEqual(error_msg) == error_msg = "found circular import of flake"

IsCircularImport(error_msg) == Contains(error_msg, "found circular import of flake")

RunFlakeCheck(outcome) ==
    LET run == RunCommand(FlakeCheckCmd, outcome)
    IN  IF run.raised
        THEN TestResult("flake_check", FAILED,
                        "Error running nix flake check: " \o run.exception, None)
        ELSE LET result == run.result
                 error_msg == IF result.stderr # "" THEN Strip(result.stderr)
                                                   ELSE "Unknown error"
             IN  IF result.returncode # 0
                 THEN IF IsMkFlakeMissing(error_msg)
                      THEN TestResult("flake_check", FAILED,
                               "mkFlake function not found (local path issue)",
                               Some([error |-> error_msg,
                                     suggestion |-> MkFlakeMissingSuggestion]))
                      ELSE IF IsLibEvaluationError(error_msg)
                      THEN TestResult("flake_check", FAILED,
                               "lib evaluation error (utils/lib issue)",
                               Some([error |-> error_msg,
                                     suggestion |-> LibEvaluationSuggestion]))
                      ELSE IF IsCircularImport(error_msg)
                      THEN TestResult("flake_check", FAILED,
                               "Circular import (local path issue)",
                               Some([error |-> error_msg,
                                     suggestion |-> CircularImportSuggestion]))
                      ELSE TestResult("flake_check", FAILED,
                               "nix flake check failed: " \o error_msg,
                               Some([return_code |-> result.returncode,
                                     stdout |-> result.stdout]))
                 ELSE TestResult("flake_check", PASSED,
                                 "nix flake check passed", None)

(***************************************************************************)
(* _check_template_outputs                                                 *)
(***************************************************************************)
TargetPlatform == "x86_64-linux"

RawOutputLimit == 500

\* len(flake_data.get(category, {}).get("x86_64-linux", {}))
OutputCount(flake_data, category) ==
    DictLen(Get(Get(flake_data, category, EmptyDict), TargetPlatform, EmptyDict))

\* as HasPackages, with >= for >
HasPackagesOrNone(package_count) == package_count >= 0

\* package_count > 0
HasPackages(package_count) == package_count > 0

CheckTemplateOutputs(outcome) ==
    LET run == RunCommand(FlakeShowCmd, outcome)
    IN  IF run.raised
        THEN TestResult("outputs_check", FAILED,
                        "Error checking template outputs: " \o run.exception, None)
        ELSE LET result == run.result
             IN  IF result.returncode # 0
                 THEN TestResult("outputs_check", FAILED,
                          "Failed to get flake outputs: " \o Strip(result.stderr),
                          None)
                 ELSE IF result.stdout.kind # "json"
                 THEN TestResult("outputs_check", FAILED,
                          "Failed to parse flake show JSON: Expecting value: line 1 column 1 (char 0)",
                          Some([raw_output |-> Prefix(result.stdout.text, RawOutputLimit)]))
                 ELSE LET flake_data == result.stdout.data
                          package_count == OutputCount(flake_data, "packages")
                          check_count == OutputCount(flake_data, "checks")
                          outputs_info ==
                              [packages |-> package_count,
                               checks |-> check_count,
                               devShells |-> OutputCount(flake_data, "devShells"),
                               apps |-> OutputCount(flake_data, "apps")]
                      IN  IF HasPackages(package_count)
                          THEN TestResult("outputs_check", PASSED,
                                   "Template generates expected outputs",
                                   Some(outputs_info))
                          ELSE TestResult("outputs_check", FAILED,
                                   "Template does not generate any packages",
                                   Some(outputs_info))

(***************************************************************************)
(* validate_template: the gate of the outputs check and the aggregation    *)
(***************************************************************************)
\* the condition of lines 345-346
OutputsCheckRuns(flake_check_result) ==
    \/ flake_check_result.status = PASSED
    \/ Contains(Get(OrEmptyDict(flake_check_result.details), "suggestion", ""),
                "local path issue")

\* as IsCriticalFailure, with no failure exempted
IsCriticalFailureEvery(t) == t.status = FAILED

\* as IsCriticalFailure, counting only the failures of the sandboxed checks
IsCriticalFailureSandboxed(t) ==
    /\ t.status = FAILED
    /\ t.name # "github_url_check"
    /\ LET suggestion == Get(OrEmptyDict(t.details), "suggestion", "")
       IN  /\ ~Contains(suggestion, "local path replacement")
           /\ ~Contains(suggestion, "local path issue")

\* the test of lines 370-372
IsCriticalFailure(t) ==
    /\ t.status = FAILED
    /\ LET suggestion == Get(OrEmptyDict(t.details), "suggestion", "")
       IN  /\ ~Contains(suggestion, "local path replacement")
           /\ ~Contains(suggestion, "local path issue")

CriticalFailures(tests) == SelectSeq(tests, IsCriticalFailure)

OverallStatus(tests) ==
    IF CriticalFailures(tests) # << >> THEN FAILED ELSE PASSED

(***************************************************************************)
(* Inputs: template directories, project roots, outcomes of the two nix    *)
(* commands                                                                *)
(***************************************************************************)
MaxLines == 2

MaxAttrs == 1

ManifestLines ==
    { "  inputs.flake-fhs.url = \"github:luochen1990/flake-fhs\";\n",
      "  inputs.flake-fhs.url = \"path:/src/flake-fhs\";\n",
      "  flake-fhs.url=\"github:someone/fork\";\n",
      "  nixpkgs.url = \"github:NixOS/nixpkgs\";\n",
      "  # flake-fhs.url = \"\";\n" }

RECURSIVE ManifestTexts(_)
\* the manifests of at most n of these lines
ManifestTexts(n) ==
    IF n = 0 THEN { "" }
    ELSE LET shorter == ManifestTexts(n - 1)
         IN  shorter \cup { t \o l : t \in shorter, l \in ManifestLines }

SupportingFiles == "pkgs" :> Dir("hello" :> Dir("package.nix" :> File("{ hello }: hello\n")))

\* what a template directory may hold: a manifest of these lines, no manifest,
\* or a directory in the manifest's place; always with its supporting files
TemplateDirs ==
    { ("flake.nix" :> File(m)) @@ SupportingFiles : m \in ManifestTexts(MaxLines) }
        \cup { SupportingFiles, ("flake.nix" :> Dir(EmptyDict)) @@ SupportingFiles }

SampleTemplateDirs ==
    { ("flake.nix" :> File("  inputs.flake-fhs.url = \"github:luochen1990/flake-fhs\";\n"))
          @@ SupportingFiles,
      ("flake.nix" :> File("  inputs.flake-fhs.url = \"path:/src/flake-fhs\";\n"))
          @@ SupportingFiles,
      SupportingFiles }

TemplateNames == { "simple", "std" }

\* a directory may also bear the name validate_all_templates gives its
\* synthetic entry
ErrorName == "error"

\* the sets of template directories a batch run finds
BatchNameSets == (SUBSET TemplateNames) \cup { { ErrorName } }

\* entries of the templates directory that are no templates
OtherEntries == (".git" :> Dir(EmptyDict)) @@ ("README.md" :> File("# Templates\n"))

ProjectRoots == { "/src/flake-fhs", "/w/github:luochen1990/flake-fhs" }

Formats == { "text", "json" }

CheckStderrs ==
    { "",
      "\n",
      "error: attribute 'mkFlake' missing\n",
      "error: expected a set but found a function\n",
      "error: found circular import of flake '/src/flake-fhs'\n",
      "error: syntax error, unexpected '}'\n",
      "error: found circular import of flake '/src/flake-fhs'\nerror: attribute 'mkFlake' missing\n" }

FlakeCheckOutcomes ==
    { TimedOut,
      Completed(0, Text(""), ""),
      Completed(0, Text(""), "warning: attribute 'mkFlake' missing in 'old'\n") }
        \cup { Completed(1, Text(""), err) : err \in CheckStderrs }

Categories == { "packages", "checks", "devShells", "apps" }

Platforms == { TargetPlatform, "aarch64-darwin" }

\* the JSON object with one derivation at each path << category, platform >> of paths
FlakeShowDoc(paths) ==
    [ c \in { q[1] : q \in paths } |->
        [ p \in { q[2] : q \in { r \in paths : r[1] = c } } |->
            [ default |-> [ type |-> "derivation" ] ] ] ]

FlakeShowDocs ==
    { FlakeShowDoc(paths) :
        paths \in { q \in SUBSET (Categories \X Platforms) : Cardinality(q) <= MaxAttrs } }
        \cup { [ packages |-> (TargetPlatform :> EmptyDict) ] }

FlakeShowOutcomes ==
    { TimedOut,
      Completed(1, Text(""), "error: getting status of '/src/flake-fhs': No such file or directory\n"),
      Completed(0, Text(""), ""),
      Completed(0, Text("warning: unknown setting"), "") }
        \cup { Completed(0, Json(doc), "") : doc \in FlakeShowDocs }

\* the orders in which iterdir() may list the directories of names
Orderings(names) ==
    { o \in [ 1..Cardinality(names) -> names ] :
        \A i, j \in 1..Cardinality(names) : o[i] = o[j] => i = j }

(***************************************************************************)
(* State                                                                   *)
(***************************************************************************)
VARIABLES
    templates_dir,      \* Optional: the entries of self.templates_dir, None if absent
    project_root,       \* str(self.project_root)
    args,               \* main's parsed arguments: template (Optional) and format
    pc,                 \* main: "start", "single", "loop", "report", "exit"
    template_dirs,      \* validate_all_templates: the names still to validate
    results,            \* the mapping from names to TemplateValidationResult
    vpc,                \* validate_template: "idle", "enter", "sandbox", "flake_check",
                        \*   "outputs", "cleanup", "aggregate"
    template_name,      \* validate_template's argument
    tests,              \* validate_template's list of TestResult
    flake_check_result, \* Optional: the result of _run_flake_check
    check_proc,         \* Optional: what the nix flake check process did
    show_proc,          \* Optional: what the nix flake show process did
    created,            \* Optional: the outcome of _create_temp_template
    sandbox,            \* Optional: owner and content of the temporary directory
    log,                \* every temporary directory made or removed and every
                        \*   external command run, with the template it was for
    summary,            \* Optional: the counts of main's summary line
    exit_code           \* Optional: the status main exits with

vars ==
    << templates_dir, project_root, args, pc, template_dirs, results, vpc,
       template_name, tests, flake_check_result, check_proc, show_proc, created,
       sandbox, log, summary, exit_code >>

fs == << templates_dir, project_root, args >>

main_vars == << pc, template_dirs, summary, exit_code >>

procs == << check_proc, show_proc >>

\* template_path.exists() and template_path.is_dir()
TemplateExists(name) ==
    /\ templates_dir # None
    /\ name \in DOMAIN templates_dir[1]
    /\ IsDir(templates_dir[1][name])

TemplateAt(name) == templates_dir[1][name].entries

TemplatePath(name) == TemplatesDirPath \o "/" \o name

InitCommon ==
    /\ pc = "start"
    /\ template_dirs = << >>
    /\ results = EmptyDict
    /\ vpc = "idle"
    /\ template_name = ""
    /\ tests = << >>
    /\ flake_check_result = None
    /\ check_proc = None
    /\ show_proc = None
    /\ created = None
    /\ sandbox = None
    /\ log = << >>
    /\ summary = None
    /\ exit_code = None

\* main --template NAME over a templates directory holding one template
InitSingle ==
    /\ templates_dir \in
           { None } \cup
           { Some(OtherEntries @@ ("simple" :> Dir(t))) : t \in TemplateDirs } \cup
           { Some(OtherEntries @@ (ErrorName :> Dir(t))) : t \in SampleTemplateDirs }
    /\ project_root \in ProjectRoots
    /\ args \in [ template : { Some(n) : n \in { "simple", "README.md", "std", ErrorName } },
                  format : Formats ]
    /\ InitCommon

\* main without --template over a templates directory of sample templates
InitBatch ==
    /\ templates_dir \in
           { None } \cup
           { Some(OtherEntries @@ [ n \in names |-> Dir(f[n]) ]) :
                 f \in [ TemplateNames \cup { ErrorName } -> SampleTemplateDirs ],
                 names \in BatchNameSets }
    /\ project_root = "/src/flake-fhs"
    /\ args \in [ template : { None }, format : Formats ]
    /\ InitCommon

Init == InitSingle \/ InitBatch

(***************************************************************************)
(* validate_template                                                       *)
(***************************************************************************)
\* the caller's use of the value validate_template returns: main stores it under
\* args.template (line 456), validate_all_templates under the directory's name
\* (line 415) and goes on with the next directory
Return(result) ==
    /\ results' = (template_name :> result) @@ results
    /\ vpc' = "idle"
    /\ IF pc = "single"
       THEN pc' = "report" /\ UNCHANGED template_dirs
       ELSE pc' = pc /\ template_dirs' = Tail(template_dirs)

\* as TemplateNotFound, reporting the missing directory as a failed test
TemplateNotFoundAsTest ==
    /\ vpc = "enter"
    /\ ~TemplateExists(template_name)
    /\ Return(TemplateValidationResult(template_name, FAILED,
           << TestResult("template_directory", FAILED,
                         "Template directory not found: " \o TemplatePath(template_name),
                         None) >>,
           None))
    /\ UNCHANGED << fs, template_name, tests, flake_check_result, procs, created,
                    sandbox, log, summary, exit_code >>

\* lines 305-313
TemplateNotFound ==
    /\ vpc = "enter"
    /\ ~TemplateExists(template_name)
    /\ Return(TemplateValidationResult(template_name, FAILED, << >>,
           Some("Template directory not found: " \o TemplatePath(template_name))))
    /\ UNCHANGED << fs, template_name, tests, flake_check_result, procs, created,
                    sandbox, log, summary, exit_code >>

\* as GithubUrlCheck, recording nothing for a template without a manifest
GithubUrlCheckOfManifest ==
    /\ vpc = "enter"
    /\ TemplateExists(template_name)
    /\ tests' = IF "flake.nix" \in DOMAIN TemplateAt(template_name)
                THEN << CheckTemplateUsesGithubUrl(TemplateAt(template_name),
                                                   TemplatePath(template_name)) >>
                ELSE << >>
    /\ vpc' = "sandbox"
    /\ UNCHANGED << fs, main_vars, results, template_name, flake_check_result,
                    procs, created, sandbox, log >>

\* lines 315-318
GithubUrlCheck ==
    /\ vpc = "enter"
    /\ TemplateExists(template_name)
    /\ tests' = << CheckTemplateUsesGithubUrl(TemplateAt(template_name),
                                              TemplatePath(template_name)) >>
    /\ vpc' = "sandbox"
    /\ UNCHANGED << fs, main_vars, results, template_name, flake_check_result,
                    procs, created, sandbox, log >>

\* as StepAfterCreate, going on to the checks whatever the outcome
StepAfterCreateAlways(success) == "flake_check"

\* as StepAfterCreate, a failed creation leaving the with block unfinished
StepAfterCreateNoCleanup(success) == IF success THEN "flake_check" ELSE "aggregate"

\* lines 327 and 333: the checks follow only a successful creation; otherwise
\* the with block is left
StepAfterCreate(success) == IF success THEN "flake_check" ELSE "cleanup"

\* as CreateSandbox, the manifest being rewritten in the template directory too
CreateSandboxInPlace ==
    /\ vpc = "sandbox"
    /\ LET made == CreateTempTemplate(TemplateAt(template_name), project_root)
       IN  /\ created' = Some([ success |-> made.success, error_msg |-> made.error_msg ])
           /\ sandbox' = Some([ owner |-> template_name, entries |-> made.temp_dir ])
           /\ templates_dir' =
                  Some([ templates_dir[1] EXCEPT ![template_name] = Dir(made.temp_dir) ])
           /\ IF ~made.success
              THEN /\ tests' = Append(tests, TestResult("temp_template_creation",
                                          FAILED, made.error_msg[1], None))
              ELSE /\ tests' = Append(tests, TestResult("temp_template_creation",
                                          PASSED,
                                          "Temporary template created with local path",
                                          None))
           /\ vpc' = StepAfterCreate(made.success)
    /\ log' = Append(log, << template_name, "TemporaryDirectory" >>)
    /\ UNCHANGED << project_root, args, main_vars, results, template_name,
                    flake_check_result, procs >>

\* lines 322-338: the temporary directory is made and _create_temp_template fills it
CreateSandbox ==
    /\ vpc = "sandbox"
    /\ LET made == CreateTempTemplate(TemplateAt(template_name), project_root)
       IN  /\ created' = Some([ success |-> made.success, error_msg |-> made.error_msg ])
           /\ sandbox' = Some([ owner |-> template_name, entries |-> made.temp_dir ])
           /\ IF ~made.success
              THEN /\ tests' = Append(tests, TestResult("temp_template_creation",
                                          FAILED, made.error_msg[1], None))
              ELSE /\ tests' = Append(tests, TestResult("temp_template_creation",
                                          PASSED,
                                          "Temporary template created with local path",
                                          None))
           /\ vpc' = StepAfterCreate(made.success)
    /\ log' = Append(log, << template_name, "TemporaryDirectory" >>)
    /\ UNCHANGED << fs, main_vars, results, template_name, flake_check_result, procs >>

\* as TempDirError, the error leaving validate_template and ending its caller
TempDirErrorPropagates ==
    /\ vpc = "sandbox"
    /\ vpc' = "idle"
    /\ pc' = "report"
    /\ template_dirs' = << >>
    /\ UNCHANGED << fs, results, template_name, tests, flake_check_result,
                    procs, created, sandbox, log, summary, exit_code >>

\* lines 322 and 356-361: tempfile.TemporaryDirectory() raises
TempDirError ==
    /\ vpc = "sandbox"
    /\ tests' = Append(tests, TestResult("temp_template_tests", FAILED,
                    "Error in temporary template tests: "
                        \o "[Errno 28] No space left on device: '" \o TempDirPath \o "'",
                    None))
    /\ vpc' = "aggregate"
    /\ UNCHANGED << fs, main_vars, results, template_name, flake_check_result,
                    procs, created, sandbox, log >>

\* as FlakeCheck, running the command a second time after a first timeout
FlakeCheckRetrying ==
    /\ vpc = "flake_check"
    /\ \E outcome \in FlakeCheckOutcomes :
           /\ check_proc' = Some(outcome)
           /\ IF outcome.timed_out /\ check_proc = None
              THEN /\ vpc' = "flake_check"
                   /\ UNCHANGED << flake_check_result, tests >>
              ELSE /\ flake_check_result' = Some(RunFlakeCheck(outcome))
                   /\ tests' = Append(tests, RunFlakeCheck(outcome))
                   /\ vpc' = "outputs"
    /\ log' = Append(log, << template_name, "nix flake check" >>)
    /\ UNCHANGED << fs, main_vars, results, template_name, show_proc, created,
                    sandbox >>

\* lines 340-342
FlakeCheck ==
    /\ vpc = "flake_check"
    /\ \E outcome \in FlakeCheckOutcomes :
           /\ check_proc' = Some(outcome)
           /\ flake_check_result' = Some(RunFlakeCheck(outcome))
           /\ tests' = Append(tests, RunFlakeCheck(outcome))
    /\ log' = Append(log, << template_name, "nix flake check" >>)
    /\ vpc' = "outputs"
    /\ UNCHANGED << fs, main_vars, results, template_name, show_proc, created,
                    sandbox >>

\* lines 345-347
OutputsCheck ==
    /\ vpc = "outputs"
    /\ OutputsCheckRuns(flake_check_result[1])
    /\ \E outcome \in FlakeShowOutcomes :
           /\ show_proc' = Some(outcome)
           /\ tests' = Append(tests, CheckTemplateOutputs(outcome))
    /\ log' = Append(log, << template_name, "nix flake show" >>)
    /\ vpc' = "cleanup"
    /\ UNCHANGED << fs, main_vars, results, template_name, flake_check_result,
                    check_proc, created, sandbox >>

\* lines 348-354
OutputsSkipped ==
    /\ vpc = "outputs"
    /\ ~OutputsCheckRuns(flake_check_result[1])
    /\ tests' = Append(tests, TestResult("outputs_check", SKIPPED,
                                         "Skipped due to flake check failures", None))
    /\ vpc' = "cleanup"
    /\ UNCHANGED << fs, main_vars, results, template_name, flake_check_result,
                    procs, created, sandbox, log >>

\* line 322: the with block is left and the temporary directory removed
Cleanup ==
    /\ vpc = "cleanup"
    /\ sandbox' = None
    /\ log' = Append(log, << template_name, "cleanup" >>)
    /\ vpc' = "aggregate"
    /\ UNCHANGED << fs, main_vars, results, template_name, tests,
                    flake_check_result, procs, created >>

\* lines 363-382
Aggregate ==
    /\ vpc = "aggregate"
    /\ Return(TemplateValidationResult(template_name, OverallStatus(tests), tests, None))
    /\ UNCHANGED << fs, template_name, tests, flake_check_result, procs, created,
                    sandbox, log, summary, exit_code >>

(***************************************************************************)
(* validate_all_templates and main                                         *)
(***************************************************************************)
ErrorResult(message) ==
    "error" :> TemplateValidationResult("error", FAILED, << >>, Some(message))

\* as IsTemplateDir, without the test of the name
IsTemplateDirHiddenToo(name) == IsDir(templates_dir[1][name])

\* line 401: d.is_dir() and not d.name.startswith('.')
IsTemplateDir(name) ==
    /\ IsDir(templates_dir[1][name])
    /\ ~StartsWithAt(name, 1, ".")

\* lines 399-402
DiscoveredTemplates == { n \in DOMAIN templates_dir[1] : IsTemplateDir(n) }

\* main, lines 453-456: validate_template(args.template) is called
MainSingle ==
    /\ pc = "start"
    /\ args.template # None
    /\ pc' = "single"
    /\ vpc' = "enter"
    /\ template_name' = args.template[1]
    /\ UNCHANGED << fs, template_dirs, results, tests, flake_check_result,
                    procs, created, sandbox, log, summary, exit_code >>

\* main, lines 457-459, and validate_all_templates, lines 386-412
ValidateAll ==
    /\ pc = "start"
    /\ args.template = None
    /\ IF templates_dir = None
       THEN /\ results' = ErrorResult("Templates directory not found: " \o TemplatesDirPath)
            /\ pc' = "report"
            /\ UNCHANGED template_dirs
       ELSE IF DiscoveredTemplates = {}
       THEN /\ results' = ErrorResult("No template directories found")
            /\ pc' = "report"
            /\ UNCHANGED template_dirs
       ELSE /\ template_dirs' \in Orderings(DiscoveredTemplates)
            /\ pc' = "loop"
            /\ UNCHANGED results
    /\ UNCHANGED << fs, vpc, template_name, tests, flake_check_result, procs,
                    created, sandbox, log, summary, exit_code >>

\* lines 414-415: validate_template(template_dir.name) is called
LoopCall ==
    /\ pc = "loop"
    /\ vpc = "idle"
    /\ template_dirs # << >>
    /\ template_name' = Head(template_dirs)
    /\ vpc' = "enter"
    /\ tests' = << >>
    /\ flake_check_result' = None
    /\ check_proc' = None
    /\ show_proc' = None
    /\ created' = None
    /\ UNCHANGED << fs, main_vars, results, sandbox, log >>

\* line 417
LoopReturn ==
    /\ pc = "loop"
    /\ vpc = "idle"
    /\ template_dirs = << >>
    /\ pc' = "report"
    /\ UNCHANGED << fs, template_dirs, results, vpc, template_name, tests,
                    flake_check_result, procs, created, sandbox, log, summary,
                    exit_code >>

\* as TotalTemplates, leaving out every result that has no tests
TotalTemplatesWithTests ==
    Cardinality({ n \in DOMAIN results : results[n].tests # << >> })

\* lines 506-507
TotalTemplates ==
    Cardinality({ n \in DOMAIN results : results[n].template_name # "error" })

PassedTemplates ==
    Cardinality({ n \in DOMAIN results : results[n].overall_status = PASSED })

\* lines 511-514
ExitStatus(passed_templates, total_templates) ==
    IF passed_templates < total_templates THEN 1 ELSE 0

\* main, lines 461-514: the results are printed; the text format ends with the
\* summary line and sys.exit, the json format with main returning
Report ==
    /\ pc = "report"
    /\ IF args.format = "json"
       THEN /\ summary' = None
            /\ exit_code' = Some(0)
       ELSE /\ summary' = Some([ passed |-> PassedTemplates, total |-> TotalTemplates ])
            /\ exit_code' = Some(ExitStatus(PassedTemplates, TotalTemplates))
    /\ pc' = "exit"
    /\ UNCHANGED << fs, template_dirs, results, vpc, template_name, tests,
                    flake_check_result, procs, created, sandbox, log >>

Next ==
    \/ MainSingle
    \/ ValidateAll
    \/ LoopCall
    \/ LoopReturn
    \/ Report
    \/ TemplateNotFound
    \/ GithubUrlCheck
    \/ CreateSandbox
    \/ TempDirError
    \/ FlakeCheck
    \/ OutputsCheck
    \/ OutputsSkipped
    \/ Cleanup
    \/ Aggregate

Spec == Init /\ [][Next]_vars

(***************************************************************************)
(* Properties                                                              *)
(***************************************************************************)
\* validate_template has returned and its caller holds the result
Returned == vpc = "idle" /\ template_name \in DOMAIN results

ReturnedResult == results[template_name]

KnownSuggestions ==
    { MkFlakeMissingSuggestion, LibEvaluationSuggestion, CircularImportSuggestion }

\* t carries a suggestion that marks a tolerated local-path substitution failure
Tolerated(t) ==
    /\ t.details # None
    /\ "suggestion" \in DOMAIN t.details[1]
    /\ t.details[1].suggestion \in KnownSuggestions

EveryFailureTolerated(ts) ==
    \A i \in 1..Len(ts) : ts[i].status = FAILED => Tolerated(ts[i])

\* C1 as stated: every result validate_template returns, for any template name,
\* has overall_status PASSED exactly if every FAILED test of it carries a
\* tolerated-substitution suggestion.
C1_AnyTemplateName ==
    Returned =>
        (ReturnedResult.overall_status = PASSED
            <=> EveryFailureTolerated(ReturnedResult.tests))

\* C1 amended: for an existing template directory the result's overall_status is
\* PASSED exactly if every FAILED test of it carries a tolerated-substitution
\* suggestion; for a missing template directory it is FAILED with no tests.
C1_ExistingTemplate ==
    Returned =>
        IF TemplateExists(template_name)
        THEN /\ ReturnedResult.overall_status \in { PASSED, FAILED }
             /\ ReturnedResult.overall_status = PASSED
                    <=> EveryFailureTolerated(ReturnedResult.tests)
        ELSE /\ ReturnedResult.overall_status = FAILED
             /\ ReturnedResult.tests = << >>

\* a template passed overall although one of its tests failed
C1_Witness ==
    /\ Returned
    /\ TemplateExists(template_name)
    /\ ReturnedResult.overall_status = PASSED
    /\ \E i \in 1..Len(ReturnedResult.tests) : ReturnedResult.tests[i].status = FAILED

\* the entries of the log made for the template being validated
LoggedFor(name, op) == \E i \in 1..Len(log) : log[i] = << name, op >>

\* the sandbox was created and both later steps have been decided
OutputsDecided ==
    /\ created # None
    /\ created[1].success
    /\ Len(tests) = 4
    /\ tests[3].name = "flake_check"
    /\ tests[4].name = "outputs_check"

\* C2: once sandbox creation has succeeded, the outputs check is run whenever
\* flake_check is PASSED or is FAILED with the suggestion of one of the three
\* known signatures; it is SKIPPED only when flake_check is FAILED without one.
C2_OutputsCheckGate ==
    OutputsDecided =>
        LET runs == tests[3].status = PASSED \/ Tolerated(tests[3])
        IN  /\ runs => /\ tests[4].status # SKIPPED
                       /\ LoggedFor(template_name, "nix flake show")
            /\ tests[4].status = SKIPPED => ~runs

\* Scenario C has happened up to the structural check: the manifest holds the
\* canonical reference, the sandbox was built, and nix flake check ended with a
\* non-zero code and the text  attribute 'mkFlake' missing  on stderr
ScenarioC ==
    /\ Returned
    /\ TemplateExists(template_name)
    /\ "flake.nix" \in DOMAIN TemplateAt(template_name)
    /\ IsFile(TemplateAt(template_name)["flake.nix"])
    /\ Contains(TemplateAt(template_name)["flake.nix"].text, EXPECTED_GITHUB_URL)
    /\ OutputsDecided
    /\ check_proc # None
    /\ ~check_proc[1].timed_out
    /\ check_proc[1].returncode # 0
    /\ Contains(check_proc[1].stderr, "attribute 'mkFlake' missing")

\* C3: in Scenario C the outputs check runs; flake_check is FAILED with a
\* suggestion and, the enumeration reporting 0 packages, outputs_check is FAILED
\* and overall_status is FAILED.
C3_ScenarioC ==
    ScenarioC =>
        /\ tests[3].status = FAILED
        /\ Tolerated(tests[3])
        /\ tests[4].status # SKIPPED
        /\ LoggedFor(template_name, "nix flake show")
        /\ (show_proc # None /\ tests[4].details # None
                /\ Get(tests[4].details[1], "packages", 1) = 0)
               => /\ tests[4].status = FAILED
                  /\ ReturnedResult.overall_status = FAILED

\* the table of known signatures, in the order the check tries them
KnownSignatures ==
    << [ signature |-> "attribute 'mkFlake' missing",
         suggestion |-> MkFlakeMissingSuggestion ],
       [ signature |-> "expected a set but found a function",
         suggestion |-> LibEvaluationSuggestion ],
       [ signature |-> "found circular import of flake",
         suggestion |-> CircularImportSuggestion ] >>

\* the rows of the table whose signature the text contains
MatchedRows(text) ==
    { k \in 1..Len(KnownSignatures) : Contains(text, KnownSignatures[k].signature) }

\* C4: the result of the structural check is decided by exit code and stderr:
\* exit 0 gives PASSED; a non-zero exit whose stderr contains a known signature
\* gives FAILED with the suggestion of that signature (of the first one in the
\* table's order when it contains several); a non-zero exit whose stderr contains
\* none gives FAILED with no suggestion field.
C4_Classification ==
    (flake_check_result # None /\ ~check_proc[1].timed_out) =>
        LET r == flake_check_result[1]
            proc == check_proc[1]
            rows == MatchedRows(proc.stderr)
            details == OrEmptyDict(r.details)
        IN  IF proc.returncode = 0
            THEN r.status = PASSED /\ "suggestion" \notin DOMAIN details
            ELSE /\ r.status = FAILED
                 /\ IF rows = {}
                    THEN "suggestion" \notin DOMAIN details
                    ELSE /\ "suggestion" \in DOMAIN details
                         /\ \E k \in rows :
                              /\ \A j \in rows : k <= j
                              /\ details.suggestion = KnownSignatures[k].suggestion

\* a non-zero exit whose stderr holds only the third signature was classified
C4_Witness ==
    /\ flake_check_result # None
    /\ ~check_proc[1].timed_out
    /\ check_proc[1].returncode # 0
    /\ MatchedRows(check_proc[1].stderr) = { 3 }
    /\ flake_check_result[1].details[1].suggestion = CircularImportSuggestion

\* every character of s from index a to index b is in chars
AllIn(s, a, b, chars) == \A k \in a..b : SubSeq(s, k, k) \in chars

\* an assignment  flake-fhs.url = "<value>"  starts at index i of s and its
\* closing quote is at index j
IsUrlAssignment(s, i, j) ==
    /\ StartsWithAt(s, i, UrlAssignment)
    /\ \E b \in (i + Len(UrlAssignment))..j :
         /\ AllIn(s, i + Len(UrlAssignment), b - 1, Whitespace)
         /\ SubSeq(s, b, b) = "="
         /\ \E c \in (b + 1)..(j - 2) :
              /\ AllIn(s, b + 1, c - 1, Whitespace)
              /\ SubSeq(s, c, c) = "\""
              /\ \A k \in (c + 1)..(j - 1) : SubSeq(s, k, k) # "\""
              /\ SubSeq(s, j, j) = "\""

\* the value of the assignment from i to j: what stands between its quotes
AssignedValue(s, i, j) ==
    LET c == CHOOSE q \in i..(j - 2) :
                 /\ SubSeq(s, q, q) = "\""
                 /\ \A k \in (q + 1)..(j - 1) : SubSeq(s, k, k) # "\""
    IN  SubSeq(s, c + 1, j - 1)

\* the places << i, j >> of the assignments of s
UrlAssignments(s) ==
    { q \in (1..Len(s)) \X (1..Len(s)) : IsUrlAssignment(s, q[1], q[2]) }

\* urls lists the values of the assignments of s in their order of appearance
ListsDeclaredUrls(urls, s) ==
    LET places == UrlAssignments(s)
    IN  /\ Len(urls) = Cardinality(places)
        /\ \A q \in places :
             LET rank == Cardinality({ r \in places : r[1] <= q[1] })
             IN  urls[rank] = AssignedValue(s, q[1], q[2])

\* the manifest text of the template being validated, when it has one
HasManifest ==
    /\ TemplateExists(template_name)
    /\ "flake.nix" \in DOMAIN TemplateAt(template_name)
    /\ IsFile(TemplateAt(template_name)["flake.nix"])

Manifest == TemplateAt(template_name)["flake.nix"].text

\* C5: the github_url_check of an existing template is PASSED if its manifest
\* contains the canonical reference; if not it is FAILED and details.found_urls
\* lists the value of every  flake-fhs.url = "<value>"  assignment of the
\* manifest, in order of appearance.
C5_GithubUrlCheck ==
    vpc = "sandbox" =>
        LET t == tests[1]
        IN  /\ Len(tests) = 1
            /\ t.name = "github_url_check"
            /\ IF ~HasManifest
               THEN t.status = FAILED
               ELSE IF Contains(Manifest, EXPECTED_GITHUB_URL)
               THEN t.status = PASSED
               ELSE /\ t.status = FAILED
                    /\ t.details # None
                    /\ "found_urls" \in DOMAIN t.details[1]
                    /\ ListsDeclaredUrls(t.details[1].found_urls, Manifest)

\* a manifest without the canonical reference declared two different references
C5_Witness ==
    /\ vpc = "sandbox"
    /\ HasManifest
    /\ ~Contains(Manifest, EXPECTED_GITHUB_URL)
    /\ tests[1].status = FAILED
    /\ Len(tests[1].details[1].found_urls) = 2
    /\ tests[1].details[1].found_urls[1] # tests[1].details[1].found_urls[2]

\* the manifest in the sandbox after _create_temp_template has rewritten it
SandboxHasManifest ==
    /\ sandbox # None
    /\ created # None
    /\ "flake.nix" \in DOMAIN sandbox[1].entries
    /\ IsFile(sandbox[1].entries["flake.nix"])

SandboxManifest == sandbox[1].entries["flake.nix"].text

\* C6 as stated: success of _create_temp_template means the sandboxed manifest
\* holds no canonical reference and holds 'path:'; a rewritten manifest failing
\* either condition means failure; and rewriting a rewritten manifest again
\* leaves it unchanged.
C6_RewriteIdempotent ==
    SandboxHasManifest =>
        /\ created[1].success =>
               /\ ~Contains(SandboxManifest, EXPECTED_GITHUB_URL)
               /\ Contains(SandboxManifest, "path:")
        /\ (Contains(SandboxManifest, EXPECTED_GITHUB_URL)
                \/ ~Contains(SandboxManifest, "path:")) => ~created[1].success
        /\ ReplaceGithubWithLocalPath(SandboxManifest, project_root) = SandboxManifest

\* C6 amended: as stated, except that rewriting the manifest again leaves it
\* unchanged when _create_temp_template reported success.
C6_RewriteVerified ==
    SandboxHasManifest =>
        /\ created[1].success =>
               /\ ~Contains(SandboxManifest, EXPECTED_GITHUB_URL)
               /\ Contains(SandboxManifest, "path:")
        /\ (Contains(SandboxManifest, EXPECTED_GITHUB_URL)
                \/ ~Contains(SandboxManifest, "path:")) => ~created[1].success
        /\ created[1].success =>
               ReplaceGithubWithLocalPath(SandboxManifest, project_root) = SandboxManifest

\* a manifest holding the canonical reference was rewritten and verified
C6_Witness ==
    /\ SandboxHasManifest
    /\ created[1].success
    /\ Contains(Manifest, EXPECTED_GITHUB_URL)
    /\ SandboxManifest # Manifest

\* the number of packages the JSON document lists for x86_64-linux
PackagesListed(doc) ==
    IF "packages" \in DOMAIN doc /\ TargetPlatform \in DOMAIN doc["packages"]
    THEN Cardinality(DOMAIN doc["packages"][TargetPlatform])
    ELSE 0

\* nix flake show was run, ended with exit code 0 and printed a JSON document
OutputsParsed ==
    /\ show_proc # None
    /\ ~show_proc[1].timed_out
    /\ show_proc[1].returncode = 0
    /\ show_proc[1].stdout.kind = "json"

\* C7: when the outputs check runs and its output parses, outputs_check is PASSED
\* exactly if the document lists more than zero packages for x86_64-linux,
\* whatever it lists under checks, devShells and apps; details holds the four
\* counts either way.
C7_OutputCountLaw ==
    OutputsParsed =>
        LET t == tests[Len(tests)]
            doc == show_proc[1].stdout.data
        IN  /\ t.name = "outputs_check"
            /\ t.status \in { PASSED, FAILED }
            /\ t.status = PASSED <=> PackagesListed(doc) > 0
            /\ t.details # None
            /\ DOMAIN t.details[1] = { "packages", "checks", "devShells", "apps" }
            /\ t.details[1].packages = PackagesListed(doc)
            /\ \A c \in { "checks", "devShells", "apps" } :
                 t.details[1][c] =
                     IF c \in DOMAIN doc /\ TargetPlatform \in DOMAIN doc[c]
                     THEN Cardinality(DOMAIN doc[c][TargetPlatform])
                     ELSE 0

\* a document with an app but no package for x86_64-linux was counted
C7_Witness ==
    /\ OutputsParsed
    /\ tests[Len(tests)].status = FAILED
    /\ tests[Len(tests)].details[1].packages = 0
    /\ tests[Len(tests)].details[1].apps = 1

\* nothing was done for the template: no temporary directory, no command
NothingLoggedFor(name) == \A i \in 1..Len(log) : log[i][1] # name

\* C8: for a template directory that does not exist or is not a directory,
\* validate_template returns a result with no tests and a non-empty
\* error_message, and makes no sandbox and runs no check or command for it.
C8_MissingTemplate ==
    (Returned /\ ~TemplateExists(template_name)) =>
        /\ ReturnedResult.template_name = template_name
        /\ ReturnedResult.tests = << >>
        /\ ReturnedResult.error_message # None
        /\ Len(ReturnedResult.error_message[1]) > 0
        /\ NothingLoggedFor(template_name)
        /\ sandbox = None
        /\ tests = << >>

\* validate_template returned for a name that is a file of the templates directory
C8_Witness ==
    /\ Returned
    /\ templates_dir # None
    /\ template_name \in DOMAIN templates_dir[1]
    /\ ~TemplateExists(template_name)
    /\ ReturnedResult.tests = << >>

\* the names of the tests recorded in ts
TestNames(ts) == { ts[i].name : i \in 1..Len(ts) }

\* C9: if sandbox creation fails, exactly one FAILED temp_template_creation
\* result is recorded and neither the structural check nor the outputs check
\* is run or recorded, not even as SKIPPED.
C9_CreationFailure ==
    (created # None /\ ~created[1].success) =>
        /\ Cardinality({ i \in 1..Len(tests) :
                             tests[i].name = "temp_template_creation" }) = 1
        /\ \A i \in 1..Len(tests) :
             tests[i].name = "temp_template_creation" => tests[i].status = FAILED
        /\ TestNames(tests) \cap { "flake_check", "outputs_check" } = {}
        /\ ~LoggedFor(template_name, "nix flake check")
        /\ ~LoggedFor(template_name, "nix flake show")
        /\ vpc \in { "cleanup", "aggregate", "idle" }
        /\ Returned => ReturnedResult.tests = tests

\* validate_template returned after a failed sandbox creation
C9_Witness ==
    /\ Returned
    /\ created # None
    /\ ~created[1].success
    /\ Len(ReturnedResult.tests) = 2
    /\ ReturnedResult.tests[2].name = "temp_template_creation"

\* the immediate subdirectories of the templates directory whose names do not
\* start with '.'
VisibleSubdirectories ==
    IF templates_dir = None THEN {}
    ELSE { n \in DOMAIN templates_dir[1] :
             templates_dir[1][n].kind = "dir" /\ SubSeq(n, 1, 1) # "." }

\* validate_all_templates has returned its mapping to main
BatchReturned == args.template = None /\ pc \in { "report", "exit" }

\* C10: validate_all_templates never returns an empty mapping: without a
\* templates directory, or without a non-hidden subdirectory in it, the mapping
\* has the one key "error" (FAILED, no tests, error_message set); otherwise it
\* has exactly one entry per non-hidden immediate subdirectory, under its name.
C10_BatchMapping ==
    BatchReturned =>
        /\ DOMAIN results # {}
        /\ IF VisibleSubdirectories = {}
           THEN /\ DOMAIN results = { "error" }
                /\ results["error"].template_name = "error"
                /\ results["error"].overall_status = FAILED
                /\ results["error"].tests = << >>
                /\ results["error"].error_message # None
           ELSE /\ DOMAIN results = VisibleSubdirectories
                /\ \A n \in DOMAIN results : results[n].template_name = n

\* a batch over two templates beside a hidden directory and a file returned
C10_Witness ==
    /\ BatchReturned
    /\ Cardinality(DOMAIN results) = 2
    /\ Cardinality(DOMAIN templates_dir[1]) = 4

\* the manifest of the template being validated holds the canonical reference
UsesCanonicalReference == HasManifest /\ Contains(Manifest, EXPECTED_GITHUB_URL)

\* t has a suggestion field
HasSuggestion(t) == t.details # None /\ "suggestion" \in DOMAIN t.details[1]

\* C11: an existing template whose manifest lacks the canonical reference gets
\* overall_status FAILED whatever the sandboxed checks gave: its
\* github_url_check is FAILED and carries no suggestion.
C11_MissingReferenceFails ==
    (Returned /\ TemplateExists(template_name) /\ ~UsesCanonicalReference) =>
        /\ ReturnedResult.tests # << >>
        /\ ReturnedResult.tests[1].name = "github_url_check"
        /\ ReturnedResult.tests[1].status = FAILED
        /\ ~HasSuggestion(ReturnedResult.tests[1])
        /\ ReturnedResult.overall_status = FAILED

\* a template without the canonical reference passed every sandboxed check
C11_Witness ==
    /\ Returned
    /\ HasManifest
    /\ ~Contains(Manifest, EXPECTED_GITHUB_URL)
    /\ Len(ReturnedResult.tests) = 4
    /\ \A i \in 2..4 : ReturnedResult.tests[i].status = PASSED
    /\ ReturnedResult.overall_status = FAILED

\* main has printed the text summary and exited
Summarised == pc = "exit" /\ args.format = "text" /\ summary # None

\* r is a result made without validating anything: no tests, an error_message
IsErrorResult(r) == r.tests = << >> /\ r.error_message # None

\* C12 as stated: the total of the text summary leaves out every result that has
\* no tests and an error_message, the one for an absent template directory
\* included.
C12_AbsentTemplateExcluded ==
    Summarised =>
        summary[1].total =
            Cardinality({ n \in DOMAIN results : ~IsErrorResult(results[n]) })

\* C12 amended: the total of the text summary leaves out exactly the entry named
\* "error": the synthetic entry of validate_all_templates is not counted, and
\* the result for an absent template directory asked for under another name is
\* counted as a template that did not pass.
C12_ErrorEntryExcluded ==
    Summarised =>
        /\ summary[1].total = Cardinality(DOMAIN results \ { "error" })
        /\ (args.template = None /\ VisibleSubdirectories = {}) =>
               /\ \A n \in DOMAIN results : IsErrorResult(results[n])
               /\ summary[1].total = 0
        /\ (args.template # None /\ args.template # Some("error")
                /\ ~TemplateExists(args.template[1])) =>
               /\ IsErrorResult(results[args.template[1]])
               /\ summary[1].total = 1
               /\ summary[1].passed = 0

\* the summary was printed for one named template whose directory is absent
C12_Witness ==
    /\ Summarised
    /\ args.template = Some("std")
    /\ templates_dir # None
    /\ IsErrorResult(results["std"])
    /\ summary[1].total = 1

\* the temporary directories the log shows made and not yet removed
OpenSandboxes ==
    { i \in 1..Len(log) :
        /\ log[i][2] = "TemporaryDirectory"
        /\ \A j \in (i + 1)..Len(log) : log[j] # << log[i][1], "cleanup" >> }

\* the results validate_template has returned so far
ReturnedCount == Cardinality(DOMAIN results)

\* C13: the sandbox of a template is deleted on every exit path of its
\* validation: when validate_template has returned no sandbox exists, and at any
\* time at most one sandbox exists, which belongs to the template being
\* validated, whose validation is still inside the with block.
C13_SandboxScoped ==
    /\ Cardinality(OpenSandboxes) <= 1
    /\ OpenSandboxes = {} <=> sandbox = None
    /\ \A i \in OpenSandboxes :
         /\ log[i][1] = template_name
         /\ sandbox[1].owner = template_name
         /\ template_name \notin DOMAIN results
         /\ vpc \in { "flake_check", "outputs", "cleanup" }
    /\ vpc \in { "idle", "enter", "sandbox", "aggregate" } => sandbox = None
    /\ \A n \in DOMAIN results : ~\E i \in OpenSandboxes : log[i][1] = n

\* in a batch run the sandbox of the second template exists after the first
\* template, whose sandbox creation failed, has been returned and cleaned up
C13_Witness ==
    /\ args.template = None
    /\ ReturnedCount = 1
    /\ \E n \in DOMAIN results :
         /\ Len(results[n].tests) = 2
         /\ results[n].tests[2].status = FAILED
         /\ LoggedFor(n, "TemporaryDirectory")
         /\ LoggedFor(n, "cleanup")
    /\ sandbox # None
    /\ sandbox[1].owner = template_name
    /\ vpc = "outputs"

\* the names of the steps in the order validate_template takes them
StepOrder ==
    << "github_url_check", "temp_template_creation", "flake_check", "outputs_check" >>

\* the indices of ts at which a test of this name is recorded
RecordedAt(ts, name) == { i \in 1..Len(ts) : ts[i].name = name }

\* ts is in step order: github_url_check first and once, then
\* temp_template_creation, flake_check only after a PASSED temp_template_creation,
\* outputs_check only after flake_check; the one entry that is no step is the
\* temp_template_tests of an error of the with block, which ends the list
InStepOrder(ts) ==
    /\ ts # << >>
    /\ RecordedAt(ts, "github_url_check") = { 1 }
    /\ RecordedAt(ts, "temp_template_creation") \subseteq { 2 }
    /\ RecordedAt(ts, "flake_check") \subseteq { 3 }
    /\ RecordedAt(ts, "outputs_check") \subseteq { 4 }
    /\ Len(ts) <= 4
    /\ \A i \in 1..Len(ts) :
         \/ ts[i].name = StepOrder[i]
         \/ ts[i].name = "temp_template_tests" /\ i = Len(ts)
    /\ RecordedAt(ts, "flake_check") # {} =>
           ts[2].name = "temp_template_creation" /\ ts[2].status = PASSED
    /\ RecordedAt(ts, "outputs_check") # {} => ts[3].name = "flake_check"

\* what is recorded for the template being validated, and what was returned
C14_Order ==
    /\ (vpc \notin { "idle", "enter" }) => InStepOrder(tests)
    /\ \A n \in DOMAIN results :
         results[n].tests # << >> => InStepOrder(results[n].tests)
    /\ (Returned /\ TemplateExists(template_name)) =>
           /\ InStepOrder(ReturnedResult.tests)
           /\ Len(ReturnedResult.tests) >= 2

\* a step of one run only appends to tests, and a returned result stays as it is
C14_Grows ==
    /\ ~(vpc = "idle" /\ vpc' = "enter") =>
           /\ Len(tests) <= Len(tests')
           /\ SubSeq(tests', 1, Len(tests)) = tests
    /\ \A n \in DOMAIN results :
         n \in DOMAIN results' /\ results'[n] = results[n]

\* C14: for every existing template directory the recorded tests follow the
\* order of the steps, none repeated or out of place: github_url_check is the
\* first entry and recorded once, temp_template_creation follows it, flake_check
\* comes only after a PASSED temp_template_creation and outputs_check only after
\* flake_check; and the sequence only grows during the run.
C14_StepOrder == [] C14_Order /\ [][C14_Grows]_vars

\* all four steps were recorded and returned, the last one SKIPPED
C14_Witness ==
    /\ Returned
    /\ Len(ReturnedResult.tests) = 4
    /\ \A i \in 1..4 : ReturnedResult.tests[i].name = StepOrder[i]
    /\ ReturnedResult.tests[1].status = FAILED
    /\ ReturnedResult.tests[4].status = SKIPPED

\* the result recorded for an error caught by the handler of lines 356-361
IsBlockError(t) ==
    /\ t.name = "temp_template_tests"
    /\ t.status = FAILED
    /\ StartsWithAt(t.message, 1, "Error in temporary template tests: ")

\* the template directories validate_all_templates has yet to return a result for
Pending == { template_dirs[i] : i \in 1..Len(template_dirs) }

\* C15: an error of the sandboxed block is recorded as one FAILED TestResult,
\* after which validate_template goes on to return its result as usual; and a
\* batch run keeps every discovered template either pending or in the result
\* mapping, so that each has its own entry when validate_all_templates returns,
\* however the validation of the others ended.
C15_ErrorContained ==
    /\ \A i \in RecordedAt(tests, "temp_template_tests") :
         /\ IsBlockError(tests[i])
         /\ i = Len(tests)
         /\ RecordedAt(tests, "temp_template_tests") = { i }
         /\ vpc \in { "aggregate", "idle" }
         /\ Returned =>
                /\ ReturnedResult.tests = tests
                /\ ReturnedResult.template_name = template_name
                /\ ReturnedResult.overall_status = FAILED
                /\ ReturnedResult.error_message = None
    /\ pc = "loop" =>
           /\ DOMAIN results \cup Pending = DiscoveredTemplates
           /\ DOMAIN results \cap Pending = {}
           /\ vpc # "idle" => template_dirs # << >> /\ template_name = Head(template_dirs)
    /\ (BatchReturned /\ "error" \notin DOMAIN results) =>
           /\ DOMAIN results = DiscoveredTemplates
           /\ \A n \in DOMAIN results : results[n].template_name = n

\* in a batch run the first template ended with an error of the sandboxed block
\* and the checks of the second one are running
C15_Witness ==
    /\ pc = "loop"
    /\ ReturnedCount = 1
    /\ \E n \in DOMAIN results :
         /\ Len(results[n].tests) = 2
         /\ IsBlockError(results[n].tests[2])
    /\ template_name \notin DOMAIN results
    /\ vpc = "outputs"

\* the places of the log at which op was invoked for the template name
Invocations(name, op) == { i \in 1..Len(log) : log[i] = << name, op >> }

\* the templates the log has an entry for
LoggedTemplates == { log[i][1] : i \in 1..Len(log) }

\* C16: there are no retries: for one template nix flake check is invoked at
\* most once and nix flake show at most once, whatever the invocation gave
\* (failure and timeout included), and nix flake show is invoked only after
\* nix flake check has returned.
C16_NoRetries ==
    /\ \A n \in LoggedTemplates :
         /\ Cardinality(Invocations(n, "nix flake check")) <= 1
         /\ Cardinality(Invocations(n, "nix flake show")) <= 1
         /\ \A j \in Invocations(n, "nix flake show") :
              \E i \in Invocations(n, "nix flake check") : i < j
    /\ check_proc # None <=> Invocations(template_name, "nix flake check") # {}
    /\ show_proc # None <=> Invocations(template_name, "nix flake show") # {}
    /\ show_proc # None =>
           /\ check_proc # None
           /\ flake_check_result # None
           /\ RecordedAt(tests, "flake_check") = { 3 }
    /\ Cardinality(RecordedAt(tests, "flake_check")) <= 1
    /\ Cardinality(RecordedAt(tests, "outputs_check")) <= 1

\* validate_template returned after nix flake check passed and nix flake show
\* timed out, each having been invoked once
C16_Witness ==
    /\ Returned
    /\ check_proc # None
    /\ show_proc # None
    /\ show_proc[1].timed_out
    /\ Cardinality(Invocations(template_name, "nix flake check")) = 1
    /\ Cardinality(Invocations(template_name, "nix flake show")) = 1

\* the process ended by itself with a non-zero return code
ExitedNonZero(proc) == ~proc.timed_out /\ proc.returncode # 0

\* the messages of the results the two checks give for a non-zero exit
NonZeroExitMessages ==
    { RunFlakeCheck(o).message : o \in { q \in FlakeCheckOutcomes : ExitedNonZero(q) } }
        \cup
    { CheckTemplateOutputs(o).message : o \in { q \in FlakeShowOutcomes : ExitedNonZero(q) } }

\* how the message of each check begins when its command raised an error
ErrorPrefix ==
    [ flake_check |-> "Error running nix flake check: ",
      outputs_check |-> "Error checking template outputs: " ]

\* t is the result of a check whose command timed out
IsTimeoutResult(t, name) ==
    /\ t.name = name
    /\ t.status = FAILED
    /\ StartsWithAt(t.message, 1, ErrorPrefix[name] \o "Command timed out: nix ")
    /\ t.message \notin NonZeroExitMessages
    /\ \A m \in NonZeroExitMessages : ~StartsWithAt(m, 1, ErrorPrefix[name])
    /\ t.details = None
    /\ ~HasSuggestion(t)
    /\ IsCriticalFailure(t)

\* C17: a timeout of nix flake check or nix flake show is reported as the FAILED
\* result of the check that ran it, with a message no non-zero exit gives and
\* without a suggestion; after a timeout of nix flake check the outputs check is
\* SKIPPED, nix flake show is not run, and overall_status is FAILED, as it is
\* after a timeout of nix flake show.
C17_Timeout ==
    /\ (check_proc # None /\ check_proc[1].timed_out) =>
           /\ IsTimeoutResult(tests[3], "flake_check")
           /\ flake_check_result = Some(tests[3])
           /\ show_proc = None
           /\ Len(tests) >= 4 =>
                  tests[4].name = "outputs_check" /\ tests[4].status = SKIPPED
           /\ Returned =>
                  /\ Len(ReturnedResult.tests) = 4
                  /\ ReturnedResult.overall_status = FAILED
    /\ (show_proc # None /\ show_proc[1].timed_out) =>
           /\ IsTimeoutResult(tests[4], "outputs_check")
           /\ Returned => ReturnedResult.overall_status = FAILED
    /\ (check_proc # None /\ ExitedNonZero(check_proc[1])) =>
           /\ ~StartsWithAt(tests[3].message, 1, ErrorPrefix["flake_check"])
           /\ tests[3].details # None

\* a template that uses the canonical reference failed overall because
\* nix flake check timed out
C17_Witness ==
    /\ Returned
    /\ check_proc # None
    /\ check_proc[1].timed_out
    /\ ReturnedResult.tests[1].status = PASSED
    /\ ReturnedResult.tests[2].status = PASSED
    /\ ReturnedResult.tests[4].status = SKIPPED
    /\ ReturnedResult.overall_status = FAILED

\* a step leaves the templates directory and everything in it as it is, and
\* the step that copies and rewrites the manifest changes the sandbox alone
C18_Frame ==
    /\ templates_dir' = templates_dir
    /\ (vpc = "sandbox" /\ vpc' \in { "flake_check", "cleanup" }) =>
           /\ sandbox = None
           /\ sandbox' # None
           /\ sandbox'[1].entries =
                  CreateTempTemplate(TemplateAt(template_name), project_root).temp_dir

\* C18: no step of validate_template or validate_all_templates writes to a
\* template directory: the copy and the rewrite of the manifest change the
\* sandbox only, so every template is the same after any number of validations.
C18_TemplatesUnchanged == [][C18_Frame]_vars

\* a template was validated to the end, its manifest having been rewritten in
\* the sandbox, and still holds the canonical reference
C18_Witness ==
    /\ Returned
    /\ created # None
    /\ created[1].success
    /\ LoggedFor(template_name, "cleanup")
    /\ HasManifest
    /\ Contains(Manifest, EXPECTED_GITHUB_URL)
    /\ ReplaceGithubWithLocalPath(Manifest, project_root) # Manifest

\* C19: in text mode main exits with status 0 only if every entry of the result
\* mapping has overall_status PASSED; a run whose mapping holds only the
\* synthetic "error" entry does not exit with 0.
C19_ExitSignal ==
    (Summarised /\ exit_code = Some(0)) =>
        \A n \in DOMAIN results : results[n].overall_status = PASSED

\* the template being validated has a manifest that contains text
ManifestContains(text) == HasManifest /\ Contains(Manifest, text)

\* C20: for an existing template whose manifest lacks the canonical reference
\* the failed github_url_check does not end the validation: sandbox creation is
\* attempted, and it succeeds exactly if the manifest already contains 'path:';
\* with neither in the manifest temp_template_creation is FAILED and neither
\* nix flake check nor nix flake show is run for the template.
C20_CreationWithoutReference ==
    (TemplateExists(template_name) /\ ~ManifestContains(EXPECTED_GITHUB_URL)
        /\ vpc \in { "flake_check", "outputs", "cleanup", "aggregate", "idle" }) =>
        /\ tests[1].status = FAILED
        /\ Len(tests) >= 2
        /\ tests[2].name \in { "temp_template_creation", "temp_template_tests" }
        /\ tests[2].name = "temp_template_creation" =>
               /\ created # None
               /\ LoggedFor(template_name, "TemporaryDirectory")
               /\ created[1].success <=> ManifestContains("path:")
               /\ tests[2].status = IF ManifestContains("path:") THEN PASSED ELSE FAILED
        /\ tests[2].name = "temp_template_tests" => created = None
        /\ ~ManifestContains("path:") =>
               /\ tests[2].status = FAILED
               /\ Len(tests) = 2
               /\ check_proc = None
               /\ show_proc = None
               /\ ~LoggedFor(template_name, "nix flake check")
               /\ ~LoggedFor(template_name, "nix flake show")

\* the sandbox of a template that declares only a local path was created and
\* nix flake check was run in it
C20_Witness ==
    /\ vpc = "outputs"
    /\ ~ManifestContains(EXPECTED_GITHUB_URL)
    /\ ManifestContains("path:")
    /\ tests[1].status = FAILED
    /\ tests[2].status = PASSED
    /\ LoggedFor(template_name, "nix flake check")

====
